---- MODULE Spec2Model ----
(***************************************************************************)
(* Model of menubar/main.go of kweeb-logger: the systray process that      *)
(* binds a Unix socket, accepts connections, decodes JSON metrics from     *)
(* each connection and writes them into four systray menu items.           *)
(*                                                                         *)
(* Tasks (goroutines / threads) and their program counters:                *)
(*   main thread          pcT["main"]      main, systray.Run, onExit        *)
(*   listener goroutine   pcT["listener"]  startSocketListener              *)
(*   onReady goroutine    pcT["ready"]     onReady                          *)
(*   quit goroutine       pcT["quit"]      the func literal of onReady      *)
(*   one reader per conn  pc[c]            handleConnection,                *)
(*                                         updateMenuItems                  *)
(* Every label "lNNN" is the source line the task executes next.           *)
(* Go statements are atomic steps; the unsynchronised accesses to the      *)
(* globals are resolved by the interleaving of those steps.                *)
(* systray.Run is taken to run onReady on a goroutine of its own once the  *)
(* event loop is up, and onExit on the main thread after systray.Quit.     *)
(* staleAtStart, accepts, reads, pubs, overlap and rendered record what    *)
(* happened; no action reads them except to bound the run.                 *)
(***************************************************************************)
EXTENDS Integers, Sequences, FiniteSets, TLC

\* ------------------------------------------------------------------ bounds
\* Total number of successful conn.Read calls in one run.
MaxReads == 2

\* Number of failed Accept calls the runs of AcceptSpec keep in their record.
MaxAcceptErrors == 2

\* The connections the listener accepts in one run, in the order of their
\* Accept: two, so that one reader runs beside another and a producer
\* reconnects after a failed connection.
Conns == {1, 2}

\* ------------------------------------------------------- Metrics and JSON
\* type Metrics: the int fields hold integers, the float64 fields hold the
\* distance in thousandths (1234 stands for 1.234).
Metrics(k, c, di, dm, s) ==
    [Keypresses |-> k, MouseClicks |-> c, MouseDistanceIn |-> di,
     MouseDistanceMi |-> dm, ScrollSteps |-> s]

\* The zero value of `var metrics Metrics`.
ZeroMetrics == Metrics(0, 0, 0, 0, 0)

IntFields == {"Keypresses", "MouseClicks", "ScrollSteps"}
FloatFields == {"MouseDistanceIn", "MouseDistanceMi"}

\* The struct field a JSON object key selects: the `json:"..."` tag, matched
\* exactly or case-insensitively by encoding/json; "" when no field matches.
FieldOf(key) ==
    CASE key \in {"keypresses", "Keypresses"} -> "Keypresses"
      [] key \in {"mouse_clicks", "MOUSE_CLICKS"} -> "MouseClicks"
      [] key = "mouse_distance_in" -> "MouseDistanceIn"
      [] key = "mouse_distance_mi" -> "MouseDistanceMi"
      [] key = "scroll_steps" -> "ScrollSteps"
      [] OTHER -> ""

\* JSON values: an integer literal, a literal with a fraction (thousandths),
\* a string, or null.
JInt(n) == [t |-> "int", v |-> n]
JFrac(n) == [t |-> "frac", v |-> n]
JStr == [t |-> "str", v |-> 0]
JNull == [t |-> "null", v |-> 0]

\* A message is the bytes of one read: text that is not valid JSON, or a JSON
\* object given as its sequence of key/value members in textual order.
Malformed == [valid |-> FALSE, members |-> <<>>]
Object(members) == [valid |-> TRUE, members |-> members]
Member(key, val) == [key |-> key, val |-> val]

\* Whether encoding/json stores the value into a field of that type.
Storable(field, val) ==
    IF field \in IntFields THEN val.t = "int" ELSE val.t \in {"int", "frac"}

\* The value stored in the field.
Stored(field, val) ==
    IF field \in IntFields THEN val.v
    ELSE IF val.t = "int" THEN val.v * 1000 ELSE val.v

\* Decoding the members one after the other into struct m: an unknown key
\* and a null leave m alone, a later duplicate overwrites, a value of the
\* wrong type leaves the field alone and decoding goes on.
RECURSIVE DecodeMembers(_, _)
DecodeMembers(members, m) ==
    IF members = <<>> THEN m
    ELSE LET mem == Head(members)
             f == FieldOf(mem.key)
             m1 == IF f # "" /\ mem.val.t # "null" /\ Storable(f, mem.val)
                   THEN [m EXCEPT ![f] = Stored(f, mem.val)]
                   ELSE m
         IN DecodeMembers(Tail(members), m1)

\* Whether some member makes json.Unmarshal return an UnmarshalTypeError.
TypeError(members) ==
    \E i \in 1 .. Len(members) :
        LET f == FieldOf(members[i].key)
            val == members[i].val
        IN f # "" /\ val.t # "null" /\ ~Storable(f, val)

\* json.Unmarshal(buffer[:n], &m): the error it returns and the struct after
\* the call. Invalid text is rejected before anything is stored.
Unmarshal(msg, m) ==
    IF ~msg.valid THEN [err |-> TRUE, m |-> m]
    ELSE [err |-> TypeError(msg.members), m |-> DecodeMembers(msg.members, m)]

\* --------------------------------------------------------------- fmt
\* fmt.Sprintf("%d", n)
FmtD(n) == ToString(n)

\* Thousandths rounded to hundredths as %.2f rounds (ties to even; the
\* values of the model are never on a tie).
Round2(a) ==
    LET q == a \div 10
        r == a % 10
    IN IF r > 5 \/ (r = 5 /\ q % 2 = 1) THEN q + 1 ELSE q

\* fmt.Sprintf("%.2f", x) for x given in thousandths.
Fmt2f(x) ==
    LET a == IF x < 0 THEN 0 - x ELSE x
        h == Round2(a)
        cents == h % 100
    IN (IF x < 0 THEN "-" ELSE "") \o ToString(h \div 100) \o "."
       \o (IF cents < 10 THEN "0" ELSE "") \o ToString(cents)

KeyPressesTitle(m) == "Keypresses: " \o FmtD(m.Keypresses)
MouseClicksTitle(m) == "Mouse Clicks: " \o FmtD(m.MouseClicks)
MouseDistanceTitle(m) ==
    "Mouse Travel: " \o Fmt2f(m.MouseDistanceIn) \o " in / "
    \o Fmt2f(m.MouseDistanceMi) \o " mi"
ScrollStepsTitle(m) == "Scroll Steps: " \o FmtD(m.ScrollSteps)

\* The four package-level menu items.
Items == {"mKeyPresses", "mMouseClicks", "mMouseDistance", "mScrollSteps"}

\* A nil *systray.MenuItem.
NilItem == "<nil>"

\* The titles updateMenuItems gives the four items for metrics m.
TitlesOf(m) ==
    [i \in Items |->
        CASE i = "mKeyPresses" -> KeyPressesTitle(m)
          [] i = "mMouseClicks" -> MouseClicksTitle(m)
          [] i = "mMouseDistance" -> MouseDistanceTitle(m)
          [] i = "mScrollSteps" -> ScrollStepsTitle(m)]

\* The titles systray.AddMenuItem gives the items in onReady.
InitialTitles ==
    [i \in Items |->
        CASE i = "mKeyPresses" -> "Keypresses: 0"
          [] i = "mMouseClicks" -> "Mouse Clicks: 0"
          [] i = "mMouseDistance" -> "Mouse Travel: 0 in / 0 mi"
          [] i = "mScrollSteps" -> "Scroll Steps: 0"]

\* ------------------------------------------------------------- messages
\* {"keypresses":12,"mouse_clicks":3,"mouse_distance_in":1.234,
\*  "mouse_distance_mi":0.007,"scroll_steps":4}
MsgA ==
    Object(<<Member("keypresses", JInt(12)), Member("mouse_clicks", JInt(3)),
             Member("mouse_distance_in", JFrac(1234)),
             Member("mouse_distance_mi", JFrac(7)),
             Member("scroll_steps", JInt(4))>>)

\* {"keypresses":20,"mouse_clicks":5,"mouse_distance_in":2,
\*  "mouse_distance_mi":0.016,"scroll_steps":6}
MsgB ==
    Object(<<Member("keypresses", JInt(20)), Member("mouse_clicks", JInt(5)),
             Member("mouse_distance_in", JInt(2)),
             Member("mouse_distance_mi", JFrac(16)),
             Member("scroll_steps", JInt(6))>>)

\* What a producer may send in the runs of Spec.
Messages == {Malformed, MsgA, MsgB}

\* ------------------------------------------------------------------ state
VARIABLES
    exit,              \* "running", or how the process ended: "fatal" | "returned"
    staleAtStart,      \* whether a file was at sockAddr when the process started
    accepts,           \* the results of the Accept calls that returned, in order:
                       \* the connection, or AcceptErr
    sockFile,          \* whether a file is at sockAddr
    listener,          \* the global listener: "nil" | "open" | "closed"
    pcT,               \* next line of main, listener, ready and quit tasks
    quitCalled,        \* systray.Quit() has been called
    items,             \* title of each menu item, NilItem while the global is nil
    isMenuInitialized, \* the global flag
    conn,              \* per connection: "none" | "open" | "failed"
    pc,                \* next line of each connection's handleConnection
    metrics,           \* the local `metrics` of each handleConnection
    reads,             \* per connection: the messages its reads returned
    pubs,              \* per connection: the arguments of its updateMenuItems calls
    overlap,           \* per connection: its current updateMenuItems call ran
                       \* while another connection was inside updateMenuItems
    rendered           \* the updateMenuItems calls that reached line 151, in
                       \* order of completion

vars == <<exit, staleAtStart, accepts, sockFile, listener, pcT, quitCalled, items,
          isMenuInitialized, conn, pc, metrics, reads, pubs, overlap, rendered>>

histVars == <<staleAtStart, accepts>>
endpointVars == <<sockFile, listener>>
menuVars == <<items, isMenuInitialized>>
connVars == <<conn, pc, metrics, reads, pubs, overlap, rendered>>

Tasks == {"main", "listener", "ready", "quit"}

Running == exit = "running"

\* Lines of updateMenuItems.
UpdateLines == {"l137", "l142", "l147", "l148", "l149", "l151"}
SetTitleLines == {"l147", "l148", "l149", "l151"}

InUpdate(c) == pc[c] \in UpdateLines

RECURSIVE SumLen(_, _)
SumLen(f, S) ==
    IF S = {} THEN 0
    ELSE LET c == CHOOSE x \in S : TRUE IN Len(f[c]) + SumLen(f, S \ {c})

TotalReads == SumLen(reads, Conns)

Init ==
    /\ exit = "running"
    /\ staleAtStart \in BOOLEAN
    /\ accepts = <<>>
    /\ sockFile = staleAtStart
    /\ listener = "nil"
    /\ pcT = [t \in Tasks |-> IF t = "main" THEN "l35" ELSE "none"]
    /\ quitCalled = FALSE
    /\ items = [i \in Items |-> NilItem]
    /\ isMenuInitialized = FALSE
    /\ conn = [c \in Conns |-> "none"]
    /\ pc = [c \in Conns |-> "none"]
    /\ metrics = [c \in Conns |-> ZeroMetrics]
    /\ reads = [c \in Conns |-> <<>>]
    /\ pubs = [c \in Conns |-> <<>>]
    /\ overlap = [c \in Conns |-> FALSE]
    /\ rendered = <<>>

\* --------------------------------------------------------------- endpoint
\* The endpoint as the process sees it.
Endpoint == [listener |-> listener, sockFile |-> sockFile]

\* os.Remove(sockAddr): the file is gone afterwards; an error when there was
\* none.
OsRemove(e) == [e |-> [e EXCEPT !.sockFile = FALSE], err |-> ~e.sockFile]

\* Variant of StartupRemove: main starts without removing anything.
StartupRemoveSkipped(e) == [e |-> e, err |-> FALSE]

\* Line 35: main removes what is at sockAddr before anything else starts.
StartupRemove(e) == OsRemove(e)

\* Variant of Fatalf: the endpoint is closed and its address removed before
\* the process exits.
FatalfAfterCleanup(e) ==
    [listener |-> IF e.listener = "open" THEN "closed" ELSE e.listener,
     sockFile |-> FALSE]

\* log.Fatalf (lines 36 and 49): the message is logged and os.Exit(1) ends
\* the process at once; no deferred call, no onExit and no cleanup runs, so
\* the endpoint is left as it is.
Fatalf(e) == e

\* ------------------------------------------------------------------- main
\* Line 35: os.Remove(sockAddr) removes the stale file, or there is none
\* (os.IsNotExist, not an error).
MainRemove ==
    /\ Running /\ pcT["main"] = "l35"
    /\ sockFile' = StartupRemove(Endpoint).e.sockFile
    /\ pcT' = [pcT EXCEPT !["main"] = "l40"]
    /\ UNCHANGED <<exit, histVars, listener, quitCalled, menuVars, connVars>>

\* Lines 35-36: os.Remove fails on the existing file: log.Fatalf exits.
MainRemoveFatal ==
    /\ Running /\ pcT["main"] = "l35"
    /\ sockFile
    /\ exit' = "fatal"
    /\ listener' = Fatalf(Endpoint).listener
    /\ sockFile' = Fatalf(Endpoint).sockFile
    /\ UNCHANGED <<histVars, pcT, quitCalled, menuVars, connVars>>

\* Line 40: go startSocketListener()
MainGo ==
    /\ Running /\ pcT["main"] = "l40"
    /\ pcT' = [pcT EXCEPT !["main"] = "l41", !["listener"] = "l47"]
    /\ UNCHANGED <<exit, histVars, endpointVars, quitCalled, menuVars, connVars>>

\* Line 41: systray.Run(onReady, onExit) enters the event loop, which runs
\* onReady on a goroutine of its own.
MainRun ==
    /\ Running /\ pcT["main"] = "l41"
    /\ pcT' = [pcT EXCEPT !["main"] = "loop", !["ready"] = "l103"]
    /\ UNCHANGED <<exit, histVars, endpointVars, quitCalled, menuVars, connVars>>

\* Lines 123-125: after systray.Quit the event loop calls onExit, which
\* calls cleanup.
OnExit ==
    /\ Running /\ pcT["main"] = "loop" /\ quitCalled
    /\ pcT' = [pcT EXCEPT !["main"] = "l130"]
    /\ UNCHANGED <<exit, histVars, endpointVars, quitCalled, menuVars, connVars>>

\* Lines 41-42: onExit has returned, systray.Run returns and main returns:
\* the process ends with every goroutine.
MainReturn ==
    /\ Running /\ pcT["main"] = "ret"
    /\ exit' = "returned"
    /\ UNCHANGED <<histVars, endpointVars, pcT, quitCalled, menuVars, connVars>>

\* --------------------------------------------------------------- cleanup
\* listener.Close() on a non-nil listener: closes the socket and unlinks its
\* path; on a closed listener it changes nothing and returns an error.
ListenerClose(e) ==
    IF e.listener = "open"
    THEN [e |-> [listener |-> "closed", sockFile |-> FALSE], err |-> FALSE]
    ELSE [e |-> e, err |-> TRUE]

\* Variant of AfterCleanup: the quit goroutine ends without systray.Quit().
AfterCleanupWithoutQuit(t) == IF t = "quit" THEN "done" ELSE "ret"

\* Variant of CleanupFatal: an error of Close or Remove ends the process, as
\* the error of line 35 does.
CleanupFatalOnError(err) == err

\* What cleanup does with the error of Close and of Remove: both results are
\* discarded (lines 131 and 133), so no error ends or fails the call.
CleanupFatal(err) == FALSE

\* One whole call of cleanup() on endpoint e, run without interruption.
CleanupEffect(e) ==
    LET c == IF e.listener # "nil" THEN ListenerClose(e)
             ELSE [e |-> e, err |-> FALSE]
        r == OsRemove(c.e)
    IN [e |-> r.e, fatal |-> CleanupFatal(c.err) \/ CleanupFatal(r.err)]

\* The callers of cleanup: onExit on the main thread, the quit goroutine.
CleanupTasks == {"main", "quit"}

\* Where the caller goes on after cleanup returns.
AfterCleanup(t) == IF t = "quit" THEN "l115" ELSE "ret"

\* Lines 130-132: if listener != nil { listener.Close() }
CleanupClose(t) ==
    /\ Running /\ pcT[t] = "l130"
    /\ LET r == IF listener # "nil" THEN ListenerClose(Endpoint)
                ELSE [e |-> Endpoint, err |-> FALSE]
       IN /\ listener' = r.e.listener
          /\ sockFile' = r.e.sockFile
          /\ exit' = IF CleanupFatal(r.err) THEN "fatal" ELSE exit
    /\ pcT' = [pcT EXCEPT ![t] = "l133"]
    /\ UNCHANGED <<histVars, quitCalled, menuVars, connVars>>

\* Line 133: os.Remove(sockAddr), then cleanup returns.
CleanupRemove(t) ==
    /\ Running /\ pcT[t] = "l133"
    /\ LET r == OsRemove(Endpoint)
       IN /\ listener' = r.e.listener
          /\ sockFile' = r.e.sockFile
          /\ exit' = IF CleanupFatal(r.err) THEN "fatal" ELSE exit
    /\ pcT' = [pcT EXCEPT ![t] = AfterCleanup(t)]
    /\ UNCHANGED <<histVars, quitCalled, menuVars, connVars>>

\* ---------------------------------------------------- startSocketListener
\* Line 47: net.Listen binds a new socket at sockAddr and the result is
\* stored in the global.
ListenOK ==
    /\ Running /\ pcT["listener"] = "l47"
    /\ ~sockFile
    /\ listener' = "open"
    /\ sockFile' = TRUE
    /\ pcT' = [pcT EXCEPT !["listener"] = "l55"]
    /\ UNCHANGED <<exit, histVars, quitCalled, menuVars, connVars>>

\* Lines 47-49: net.Listen fails (the address is in use, or the system
\* refuses): log.Fatalf exits.
ListenFatal ==
    /\ Running /\ pcT["listener"] = "l47"
    /\ exit' = "fatal"
    /\ listener' = Fatalf(Endpoint).listener
    /\ sockFile' = Fatalf(Endpoint).sockFile
    /\ UNCHANGED <<histVars, pcT, quitCalled, menuVars, connVars>>

\* The connection the next successful Accept returns.
NextConn == CHOOSE c \in Conns : conn[c] = "none" /\ \A d \in Conns : d < c => conn[d] # "none"

\* Variant of AcceptLoopWaits: handleConnection(conn) is called without
\* `go`, so the loop is back at Accept only when the handler has returned.
AcceptLoopWaitsForHandler == \E c \in Conns : pc[c] \notin {"none", "done"}

\* Line 61: `go handleConnection(conn)` starts the reader as a goroutine, so
\* the accept loop never waits for a reader.
AcceptLoopWaits == FALSE

\* Lines 55-61: Accept returns a connection, go handleConnection(conn), and
\* the loop is back at Accept.
AcceptConn ==
    /\ Running /\ pcT["listener"] = "l55"
    /\ ~AcceptLoopWaits
    /\ listener = "open"
    /\ \E c \in Conns : conn[c] = "none"
    /\ conn' = [conn EXCEPT ![NextConn] = "open"]
    /\ pc' = [pc EXCEPT ![NextConn] = "l81"]
    /\ accepts' = Append(accepts, NextConn)
    /\ UNCHANGED <<exit, staleAtStart, endpointVars, pcT, quitCalled, menuVars,
                   metrics, reads, pubs, overlap, rendered>>

\* An Accept call that returned an error, in the record.
AcceptErr == 0

\* How many Accept calls of the record returned an error.
AcceptErrors == Cardinality({i \in 1 .. Len(accepts) : accepts[i] = AcceptErr})

\* Variant of AcceptErrorNext: the error ends the loop and the goroutine.
AcceptErrorReturns == "done"

\* Lines 56-59: the accept error is logged with log.Printf, which does not
\* end the process, and `continue` starts the next iteration at line 55.
AcceptErrorFatal == FALSE
AcceptErrorNext == "l55"

\* Lines 55-58: Accept returns an error (always on a closed listener,
\* transiently on an open one), which is logged, and the loop continues with
\* the next Accept. The record keeps the first `noted` errors.
AcceptFails(noted) ==
    /\ Running /\ pcT["listener"] = "l55"
    /\ ~AcceptLoopWaits
    /\ pcT' = [pcT EXCEPT !["listener"] = AcceptErrorNext]
    /\ exit' = IF AcceptErrorFatal THEN "fatal" ELSE exit
    /\ accepts' = IF AcceptErrors < noted THEN Append(accepts, AcceptErr) ELSE accepts
    /\ UNCHANGED <<staleAtStart, endpointVars, quitCalled, menuVars, connVars>>

\* In the runs of Spec the record keeps the accepted connections only.
AcceptError == AcceptFails(0)

\* ----------------------------------------------------------------- onReady
\* The item each of the lines 103-106 creates, and the line after it.
ReadyItem(l) ==
    CASE l = "l103" -> "mKeyPresses"
      [] l = "l104" -> "mMouseClicks"
      [] l = "l105" -> "mMouseDistance"
      [] l = "l106" -> "mScrollSteps"

\* Variant of ReadyNext: onReady without line 106, mScrollSteps stays nil.
ReadyNextWithoutScrollSteps(l) ==
    CASE l = "l103" -> "l104"
      [] l = "l104" -> "l105"
      [] l = "l105" -> "l109"
      [] l = "l106" -> "l109"

ReadyNext(l) ==
    CASE l = "l103" -> "l104"
      [] l = "l104" -> "l105"
      [] l = "l105" -> "l106"
      [] l = "l106" -> "l109"

\* Lines 103-106: mX = systray.AddMenuItem(<initial title>, ...)
OnReadyAddItem ==
    /\ Running /\ pcT["ready"] \in {"l103", "l104", "l105", "l106"}
    /\ LET l == pcT["ready"]
       IN /\ items' = [items EXCEPT ![ReadyItem(l)] = InitialTitles[ReadyItem(l)]]
          /\ pcT' = [pcT EXCEPT !["ready"] = ReadyNext(l)]
    /\ UNCHANGED <<exit, histVars, endpointVars, quitCalled, isMenuInitialized,
                   connVars>>

\* Lines 109-116: the Quit item is added and the goroutine waiting for its
\* click is started.
OnReadyGoQuit ==
    /\ Running /\ pcT["ready"] = "l109"
    /\ pcT' = [pcT EXCEPT !["ready"] = "l118", !["quit"] = "l112"]
    /\ UNCHANGED <<exit, histVars, endpointVars, quitCalled, menuVars, connVars>>

\* Line 118: isMenuInitialized = true
OnReadySetInitialized ==
    /\ Running /\ pcT["ready"] = "l118"
    /\ isMenuInitialized' = TRUE
    /\ pcT' = [pcT EXCEPT !["ready"] = "done"]
    /\ UNCHANGED <<exit, histVars, endpointVars, quitCalled, items, connVars>>

\* ---------------------------------------------------------- quit goroutine
\* Lines 112-114: the user clicks Quit; the goroutine calls cleanup.
QuitClicked ==
    /\ Running /\ pcT["quit"] = "l112"
    /\ pcT' = [pcT EXCEPT !["quit"] = "l130"]
    /\ UNCHANGED <<exit, histVars, endpointVars, quitCalled, menuVars, connVars>>

\* Line 115: systray.Quit()
SystrayQuit ==
    /\ Running /\ pcT["quit"] = "l115"
    /\ quitCalled' = TRUE
    /\ pcT' = [pcT EXCEPT !["quit"] = "done"]
    /\ UNCHANGED <<exit, histVars, endpointVars, menuVars, connVars>>

\* -------------------------------------------------------- handleConnection
\* Variant of FreshMetrics: `metrics` declared before the loop, so that it
\* keeps its value from one iteration to the next.
CarriedMetrics(prev) == prev

\* Line 87: `var metrics Metrics` is declared inside the loop: whatever value
\* prev the variable had when the previous iteration ended, the iteration
\* starts with a zero struct.
FreshMetrics(prev) == ZeroMetrics

\* Variant of DecodeErrorNext: no `continue`, the error falls through to the
\* call of line 94.
DecodeErrorFallsThrough == "l137"

\* Lines 88-91: where the loop goes when json.Unmarshal returns an error:
\* `continue`, back to the read of line 81.
DecodeErrorNext == "l81"

\* overlap after connection c enters updateMenuItems.
EnterUpdate(c) ==
    LET others == \E d \in Conns \ {c} : InUpdate(d)
    IN [d \in Conns |->
           IF d = c THEN others ELSE IF InUpdate(d) THEN TRUE ELSE overlap[d]]

\* Lines 81-94: conn.Read returns the bytes of one message, which are decoded
\* into the local of this iteration; on success updateMenuItems(&metrics) is
\* called, on a decode error the loop continues with its next iteration.
ReadFrom(c, pool) ==
    /\ Running /\ pc[c] = "l81" /\ conn[c] = "open"
    /\ TotalReads < MaxReads
    /\ \E msg \in pool :
         LET r == Unmarshal(msg, metrics[c])
             next == IF r.err THEN DecodeErrorNext ELSE "l137"
         IN /\ reads' = [reads EXCEPT ![c] = Append(@, msg)]
            /\ pc' = [pc EXCEPT ![c] = next]
            /\ IF next = "l137"
               THEN /\ metrics' = [metrics EXCEPT ![c] = r.m]
                    /\ pubs' = [pubs EXCEPT ![c] = Append(@, r.m)]
                    /\ overlap' = EnterUpdate(c)
               ELSE /\ metrics' = [metrics EXCEPT ![c] = FreshMetrics(r.m)]
                    /\ UNCHANGED <<pubs, overlap>>
    /\ UNCHANGED <<exit, histVars, endpointVars, pcT, quitCalled, menuVars,
                   conn, rendered>>

ConnRead(c) == ReadFrom(c, Messages)

\* Variant of ReadErrorFatal: the read error is logged with log.Fatalf.
ReadErrorIsFatal == TRUE

\* Lines 82-85: a read error is logged with log.Printf and the function
\* returns: the error ends this reader, not the process.
ReadErrorFatal == FALSE

\* Lines 81-85: conn.Read returns an error (the peer closed, I/O failure):
\* handleConnection returns.
ReadFail(c) ==
    /\ Running /\ pc[c] = "l81" /\ conn[c] = "open"
    /\ conn' = [conn EXCEPT ![c] = "failed"]
    /\ pc' = [pc EXCEPT ![c] = "done"]
    /\ exit' = IF ReadErrorFatal THEN "fatal" ELSE exit
    /\ UNCHANGED <<histVars, endpointVars, pcT, quitCalled, menuVars,
                   metrics, reads, pubs, overlap, rendered>>

\* --------------------------------------------------------- updateMenuItems
\* Variant of ReadyGuard: no test of the flag.
ReadyGuardAlways == TRUE

\* Variant of ReadyGuard: the test of the items stands in for the flag.
ReadyGuardItemsExist == \A i \in Items : items[i] # NilItem

\* Line 137: the update goes on only when isMenuInitialized is set.
ReadyGuard == isMenuInitialized

\* updateMenuItems returns to line 95 and the loop starts its next iteration.
UpdReturn(c) ==
    /\ pc' = [pc EXCEPT ![c] = "l81"]
    /\ metrics' = [metrics EXCEPT ![c] = FreshMetrics(metrics[c])]
    /\ overlap' = [overlap EXCEPT ![c] = FALSE]

\* Lines 137-140: if !isMenuInitialized { return }
UpdCheckInitialized(c) ==
    /\ Running /\ pc[c] = "l137"
    /\ IF ReadyGuard
       THEN pc' = [pc EXCEPT ![c] = "l142"] /\ UNCHANGED <<metrics, overlap>>
       ELSE UpdReturn(c)
    /\ UNCHANGED <<exit, histVars, endpointVars, pcT, quitCalled, menuVars,
                   conn, reads, pubs, rendered>>

\* Lines 142-145: if one of the four items is nil { return }
UpdCheckNil(c) ==
    /\ Running /\ pc[c] = "l142"
    /\ IF \E i \in Items : items[i] = NilItem
       THEN UpdReturn(c)
       ELSE pc' = [pc EXCEPT ![c] = "l147"] /\ UNCHANGED <<metrics, overlap>>
    /\ UNCHANGED <<exit, histVars, endpointVars, pcT, quitCalled, menuVars,
                   conn, reads, pubs, rendered>>

\* Variant of SetItem: line 151 sets mMouseDistance again.
SetItemDistanceTwice(l) ==
    CASE l = "l147" -> "mKeyPresses"
      [] l = "l148" -> "mMouseClicks"
      [] l = "l149" -> "mMouseDistance"
      [] l = "l151" -> "mMouseDistance"

\* The item each of the lines 147-151 sets, and the line after it.
SetItem(l) ==
    CASE l = "l147" -> "mKeyPresses"
      [] l = "l148" -> "mMouseClicks"
      [] l = "l149" -> "mMouseDistance"
      [] l = "l151" -> "mScrollSteps"

SetNext(l) ==
    CASE l = "l147" -> "l148"
      [] l = "l148" -> "l149"
      [] l = "l149" -> "l151"
      [] l = "l151" -> "l81"

\* Lines 147-151: one mX.SetTitle(fmt.Sprintf(...)); a nil item panics. After
\* line 151 updateMenuItems returns.
UpdSetTitle(c) ==
    /\ Running /\ pc[c] \in SetTitleLines
    /\ LET l == pc[c]
           i == SetItem(l)
       IN IF items[i] = NilItem
          THEN /\ exit' = "fatal"
               /\ UNCHANGED <<items, pc, metrics, overlap, rendered>>
          ELSE /\ items' = [items EXCEPT ![i] = TitlesOf(metrics[c])[i]]
               /\ IF l = "l151"
                  THEN /\ rendered' = Append(rendered, [m |-> metrics[c],
                                                        clean |-> ~overlap[c]])
                       /\ UpdReturn(c)
                  ELSE /\ pc' = [pc EXCEPT ![c] = SetNext(l)]
                       /\ UNCHANGED <<metrics, overlap, rendered>>
               /\ UNCHANGED exit
    /\ UNCHANGED <<histVars, endpointVars, pcT, quitCalled, isMenuInitialized,
                   conn, reads, pubs>>

\* ------------------------------------------------------------------- Spec
Next ==
    \/ MainRemove
    \/ MainRemoveFatal
    \/ MainGo
    \/ MainRun
    \/ OnExit
    \/ MainReturn
    \/ \E t \in CleanupTasks : CleanupClose(t)
    \/ \E t \in CleanupTasks : CleanupRemove(t)
    \/ ListenOK
    \/ ListenFatal
    \/ AcceptConn
    \/ AcceptError
    \/ OnReadyAddItem
    \/ OnReadyGoQuit
    \/ OnReadySetInitialized
    \/ QuitClicked
    \/ SystrayQuit
    \/ \E c \in Conns : ConnRead(c)
    \/ \E c \in Conns : ReadFail(c)
    \/ \E c \in Conns : UpdCheckInitialized(c)
    \/ \E c \in Conns : UpdCheckNil(c)
    \/ \E c \in Conns : UpdSetTitle(c)

Spec == Init /\ [][Next]_vars

\* ------------------------------------------------------ notions of claims
Range(q) == {q[i] : i \in 1 .. Len(q)}

\* The snapshots updateMenuItems has been called with so far.
Published == UNION {Range(pubs[c]) : c \in Conns}

\* No updateMenuItems call is in progress.
Quiescent == \A c \in Conns : ~InUpdate(c)

\* A message the decoder accepts.
Accepted(msg) == ~Unmarshal(msg, ZeroMetrics).err

\* How many of the messages of q the decoder accepts.
AcceptedIn(q) == Cardinality({i \in 1 .. Len(q) : Accepted(q[i])})

\* The step is a read by connection c.
ReadStep(c) == Len(reads'[c]) = Len(reads[c]) + 1

MalformedMessageIsolation ==
    /\ [](\A c \in Conns : Len(pubs[c]) = AcceptedIn(reads[c]))
    /\ [][\A c \in Conns :
            (ReadStep(c) /\ ~Accepted(reads'[c][Len(reads'[c])])) =>
                /\ pubs' = pubs /\ items' = items /\ rendered' = rendered
                /\ conn'[c] = "open" /\ pc'[c] = "l81"
                /\ exit' = exit]_vars

\* C2 witness: a connection read a malformed message and then MsgA, made one
\* call, with MsgA's snapshot, and that call set the titles.
MalformedThenValid ==
    \E c \in Conns :
        /\ reads[c] = <<Malformed, MsgA>>
        /\ pubs[c] = <<Unmarshal(MsgA, ZeroMetrics).m>>
        /\ conn[c] = "open" /\ pc[c] = "l81"
        /\ items = TitlesOf(Unmarshal(MsgA, ZeroMetrics).m)

\* C3: a read failure ends the reader of that connection and nothing else:
\* the process, the accept loop, the listener and the other readers are as
\* before; the accept loop can accept the next connection, and on a
\* connection accepted after a failure every accepted message is published.
ReconnectResilience ==
    /\ [][\A c \in Conns :
            (conn[c] = "open" /\ conn'[c] = "failed") =>
                /\ pc'[c] = "done"
                /\ exit' = exit /\ pcT' = pcT /\ listener' = listener
                /\ sockFile' = sockFile
                /\ \A d \in Conns \ {c} : pc'[d] = pc[d] /\ conn'[d] = conn[d]]_vars
    /\ [](\A c \in Conns :
            (Running /\ conn[c] = "failed" /\ pcT["listener"] = "l55"
             /\ listener = "open" /\ \E d \in Conns : conn[d] = "none")
                => ENABLED AcceptConn)
    /\ [](\A c, d \in Conns :
            (conn[c] = "failed" /\ c < d) =>
                /\ Len(pubs[d]) = AcceptedIn(reads[d])
                /\ (Quiescent /\ rendered # <<>> /\ rendered[Len(rendered)].clean
                        => items = TitlesOf(rendered[Len(rendered)].m)))

\* C3 witness: connection 1 failed, connection 2 was accepted afterwards, and
\* its message MsgB is on the display.
ReconnectedAndPublished ==
    /\ conn[1] = "failed" /\ reads[1] = <<>>
    /\ conn[2] = "open" /\ reads[2] = <<MsgB>>
    /\ pubs[2] = <<Unmarshal(MsgB, ZeroMetrics).m>>
    /\ Quiescent
    /\ items = TitlesOf(Unmarshal(MsgB, ZeroMetrics).m)

\* The most recent updateMenuItems call that ran to its end.
LastRendered == rendered[Len(rendered)]

\* C4: when an updateMenuItems call (snapshot B) has run to its end after
\* the calls before it, with no other call inside updateMenuItems meanwhile,
\* and no call is in progress, every title is the title of B.
LastWriteWins ==
    (Quiescent /\ rendered # <<>> /\ LastRendered.clean)
        => items = TitlesOf(LastRendered.m)

\* C4 witness: first MsgA's then MsgB's snapshot was published, one call
\* after the other, and the titles are those of MsgB in every field.
PublishedAThenB ==
    /\ Len(rendered) = 2
    /\ rendered[1].m = Unmarshal(MsgA, ZeroMetrics).m
    /\ rendered[2].m = Unmarshal(MsgB, ZeroMetrics).m
    /\ rendered[2].clean
    /\ Quiescent
    /\ \A i \in Items :
           /\ items[i] = TitlesOf(rendered[2].m)[i]
           /\ items[i] # TitlesOf(rendered[1].m)[i]

\* C5: no SetTitle is made while isMenuInitialized is false: no reader is at
\* a SetTitle line then, an updateMenuItems call that tests the flag then
\* returns at once, and no step changes the title of an existing item.
PreReadySuppression ==
    /\ [](\A c \in Conns : pc[c] \in SetTitleLines => isMenuInitialized)
    /\ [][~isMenuInitialized =>
            /\ \A c \in Conns :
                   (pc[c] = "l137" /\ pc'[c] # "l137") => pc'[c] = "l81"
            /\ \A i \in Items : items[i] # NilItem => items'[i] = items[i]
            /\ rendered' = rendered]_vars

\* C5 witness: the socket is bound and a snapshot was published and skipped
\* while onReady had created all four items but not yet set the flag.
SkippedBeforeReady ==
    /\ listener = "open" /\ ~isMenuInitialized
    /\ pcT["ready"] = "l118"
    /\ \A i \in Items : items[i] = InitialTitles[i]
    /\ \E c \in Conns : pubs[c] # <<>> /\ pc[c] = "l81"
    /\ rendered = <<>>

\* C6 as claimed: once the flag is set and onReady is over, a snapshot that
\* was published before, the only one so far, is what the titles show when no
\* call is in progress.
RetainedSnapshotShown ==
    (isMenuInitialized /\ pcT["ready"] = "done" /\ Quiescent
     /\ Cardinality(Published) = 1)
        => \A m \in Published : items = TitlesOf(m)

\* C6 as amended: a snapshot whose updateMenuItems call finds the flag false
\* is dropped: the call returns at once, changes no title, and the reader's
\* local is back to its zero value; the flag is set over the initial titles whatever
\* was published before; and as long as no call has run to its end the
\* titles stay the initial ones.
PreReadySnapshotDropped ==
    /\ [][\A c \in Conns :
            (~isMenuInitialized /\ pc[c] = "l137" /\ pc'[c] # "l137") =>
                /\ pc'[c] = "l81" /\ items' = items
                /\ metrics'[c] = ZeroMetrics]_vars
    /\ [][(~isMenuInitialized /\ isMenuInitialized') => items' = InitialTitles]_vars
    /\ []((Quiescent /\ rendered = <<>>) =>
             \A i \in Items : items[i] \in {NilItem, InitialTitles[i]})

\* C6 witness: a snapshot was published before the flag was set; the flag is
\* set, onReady is over, and the titles are still the initial ones.
DroppedThenReady ==
    /\ isMenuInitialized /\ pcT["ready"] = "done"
    /\ Published # {} /\ Quiescent /\ rendered = <<>>
    /\ items = InitialTitles

\* A step of cleanup, by either caller.
CleanupStep ==
    \E t \in CleanupTasks : pcT[t] \in {"l130", "l133"} /\ pcT'[t] # pcT[t]

\* C7: from every reachable state, one call of cleanup leaves no open
\* listener and no file at the address, a second call right after it leaves
\* exactly that state, and neither call fails; and the steps of a cleanup
\* that starts from the state a cleanup leaves change nothing.
IdempotentCleanup ==
    /\ [](LET once == CleanupEffect(Endpoint)
              twice == CleanupEffect(once.e)
          IN /\ twice.e = once.e
             /\ ~once.fatal /\ ~twice.fatal
             /\ ~once.e.sockFile /\ once.e.listener # "open")
    /\ [][(CleanupStep /\ CleanupEffect(Endpoint).e = Endpoint)
             => (listener' = listener /\ sockFile' = sockFile /\ exit' = exit)]_vars

\* C7 witness: the quit goroutine's cleanup closed the bound listener and
\* onExit's cleanup has run after it: the listener is closed, the file gone.
CleanupRanTwice ==
    /\ Running
    /\ pcT["quit"] = "done" /\ pcT["main"] = "ret"
    /\ listener = "closed" /\ ~sockFile

\* C8: when the process has ended by main returning (Quit clicked, both
\* cleanups run), no file is left at the socket address.
AddressRemovedAfterShutdown == exit = "returned" => ~sockFile

\* C9: the bind is attempted only when nothing is at the address (what was
\* there at the start was removed before the listener goroutine started), so
\* it can succeed, and when it does the listener is open at that address;
\* and the remove of an absent file at the start does not end the process.
StaleEndpointRecovery ==
    /\ []((Running /\ pcT["listener"] = "l47") => (~sockFile /\ ENABLED ListenOK))
    /\ [][(pcT["listener"] = "l47" /\ pcT'["listener"] # "l47")
             => (listener' = "open" /\ sockFile')]_vars
    /\ [][(pcT["main"] = "l35" /\ pcT'["main"] # "l35")
             => (pcT'["main"] = "l40" /\ ~sockFile')]_vars
    /\ []((Running /\ pcT["main"] = "l35" /\ ~sockFile) => ~ENABLED MainRemoveFatal)

\* C9 witness: a file was at the address at the start, and the listener is
\* bound at that address.
BoundAfterStaleStart ==
    /\ staleAtStart /\ Running
    /\ listener = "open" /\ sockFile /\ pcT["listener"] = "l55"

\* C11: when the process has ended by main returning after the dismissal
\* closed the listener, the accept loop has been left and no reader is still
\* waiting in conn.Read on an open connection.
ClosedEndpointUnblocksTasks ==
    (exit = "returned" /\ listener = "closed") =>
        /\ pcT["listener"] # "l55"
        /\ \A c \in Conns : ~(conn[c] = "open" /\ pc[c] = "l81")

\* C12: once the cleanup of the quit goroutine and the cleanup of onExit
\* have both returned, however their steps fell between those of the
\* listener goroutine, the listener is not open and no file is at the
\* address.
ConcurrentCleanupSafe ==
    (pcT["quit"] \in {"l115", "done"} /\ pcT["main"] = "ret")
        => (listener # "open" /\ ~sockFile)

\* C13: at most one reader is inside updateMenuItems at a time, and no
\* reader is about to read the flag or the items while onReady is about to
\* write them.
PublisherMutualExclusion ==
    /\ Cardinality({c \in Conns : InUpdate(c)}) <= 1
    /\ ~(/\ pcT["ready"] \in {"l103", "l104", "l105", "l106", "l118"}
         /\ \E c \in Conns : pc[c] \in {"l137", "l142"})

\* C15: while a reader waits in conn.Read on its open connection, the accept
\* loop at Accept on the open listener can accept the next connection; the
\* accept changes nothing of the other readers and leaves the loop at
\* Accept; and every accepted message of the later connection is published
\* and, published alone, shown.
SlowClientDoesNotStallAccepts ==
    /\ [](\A c \in Conns :
            (Running /\ conn[c] = "open" /\ pc[c] = "l81"
             /\ pcT["listener"] = "l55" /\ listener = "open"
             /\ \E d \in Conns : conn[d] = "none")
                => ENABLED AcceptConn)
    /\ [][\A d \in Conns :
            (conn[d] = "none" /\ conn'[d] = "open") =>
                /\ pc'[d] = "l81" /\ pcT' = pcT
                /\ \A c \in Conns \ {d} : pc'[c] = pc[c] /\ conn'[c] = conn[c]]_vars
    /\ [](\A c, d \in Conns :
            (conn[c] = "open" /\ pc[c] = "l81" /\ reads[c] = <<>> /\ c < d) =>
                /\ Len(pubs[d]) = AcceptedIn(reads[d])
                /\ (Quiescent /\ rendered # <<>> /\ isMenuInitialized)
                       => items = TitlesOf(LastRendered.m))

\* C15 witness: connection 1 is open and its reader still waits for its
\* first bytes; connection 2 was accepted meanwhile and its MsgB is shown.
AcceptedBesideStuckClient ==
    /\ Running
    /\ conn[1] = "open" /\ pc[1] = "l81" /\ reads[1] = <<>>
    /\ conn[2] = "open" /\ reads[2] = <<MsgB>>
    /\ Quiescent
    /\ items = TitlesOf(Metrics(20, 5, 2000, 16, 6))

\* Some invocation of cleanup has returned.
CleanupReturned == pcT["quit"] \in {"l115", "done"} \/ pcT["main"] = "ret"

\* C16 as claimed: the process has not ended, by main returning or by
\* log.Fatalf, unless an invocation of cleanup has returned before.
EveryExitAfterCleanup == exit # "running" => CleanupReturned

\* C16 as amended: the process that ends by main returning has run cleanup in
\* the quit goroutine and in onExit; the step that ends it by log.Fatalf
\* closes nothing, removes nothing and runs no cleanup, and the process has
\* no listener then.
FatalStartupSkipsCleanup ==
    /\ [](exit = "returned" =>
             (quitCalled /\ pcT["quit"] = "done" /\ pcT["main"] = "ret"))
    /\ [][(exit = "running" /\ exit' = "fatal") =>
             /\ listener = "nil"
             /\ listener' = listener /\ sockFile' = sockFile
             /\ pcT' = pcT /\ quitCalled' = quitCalled]_vars

\* C16 witness: the file found at the address at the start could not be
\* removed: the process has ended by log.Fatalf at line 36, the file is still
\* there and no cleanup was started.
FatalRemoveWithoutCleanup ==
    /\ exit = "fatal" /\ pcT["main"] = "l35"
    /\ staleAtStart /\ sockFile
    /\ pcT["quit"] = "none" /\ ~CleanupReturned

\* C20: whenever isMenuInitialized is true the four items exist; the flag,
\* once true, stays true; so an updateMenuItems call that has passed the test
\* of the flag finds no nil item at line 142, goes on to line 147 and never
\* calls SetTitle on a nil item.
ReadyImpliesItemsExist ==
    /\ [](isMenuInitialized => \A i \in Items : items[i] # NilItem)
    /\ [][isMenuInitialized => isMenuInitialized']_vars
    /\ [](\A c \in Conns :
            pc[c] \in {"l142"} \cup SetTitleLines =>
                (isMenuInitialized /\ \A i \in Items : items[i] # NilItem))
    /\ [][\A c \in Conns :
            (pc[c] = "l142" /\ pc'[c] # "l142") => pc'[c] = "l147"]_vars

\* C20 witness: with the flag set, a reader has passed the nil test of line
\* 142 and is about to set the first title.
PassedNilTest ==
    /\ isMenuInitialized /\ pcT["ready"] = "done"
    /\ \A i \in Items : items[i] # NilItem
    /\ \E c \in Conns : pc[c] = "l147"

\* ------------------------------------------------------------- FairSpec
\* The quit goroutine, once Quit is clicked, and the main thread, once
\* systray.Quit is called, are scheduled until they are done.
ShutdownFairness ==
    /\ WF_vars(CleanupClose("quit"))
    /\ WF_vars(CleanupRemove("quit"))
    /\ WF_vars(SystrayQuit)
    /\ WF_vars(OnExit)
    /\ WF_vars(CleanupClose("main"))
    /\ WF_vars(CleanupRemove("main"))
    /\ WF_vars(MainReturn)

\* The whole program, with producers that send MsgA.
ShutdownConnRead(c) == ReadFrom(c, {MsgA})

ShutdownNext ==
    \/ MainRemove
    \/ MainRemoveFatal
    \/ MainGo
    \/ MainRun
    \/ OnExit
    \/ MainReturn
    \/ \E t \in CleanupTasks : CleanupClose(t)
    \/ \E t \in CleanupTasks : CleanupRemove(t)
    \/ ListenOK
    \/ ListenFatal
    \/ AcceptConn
    \/ AcceptError
    \/ OnReadyAddItem
    \/ OnReadyGoQuit
    \/ OnReadySetInitialized
    \/ QuitClicked
    \/ SystrayQuit
    \/ \E c \in Conns : ShutdownConnRead(c)
    \/ \E c \in Conns : ReadFail(c)
    \/ \E c \in Conns : UpdCheckInitialized(c)
    \/ \E c \in Conns : UpdCheckNil(c)
    \/ \E c \in Conns : UpdSetTitle(c)

FairSpec == Init /\ [][ShutdownNext]_vars /\ ShutdownFairness

\* The click on Quit has been delivered to the quit goroutine.
Dismissed == pcT["quit"] \notin {"none", "l112"}

\* C17: once the click on Quit is delivered the process ends, whatever the
\* accept loop and the readers do; and the steps come in this order:
\* cleanup in the quit goroutine, systray.Quit, onExit with its cleanup, the
\* return of main.
ShutdownTerminates ==
    /\ Dismissed ~> (exit # "running")
    /\ [][quitCalled' # quitCalled => (pcT["quit"] = "l115" /\ quitCalled')]_vars
    /\ [](pcT["main"] \in {"l130", "l133", "ret"} => quitCalled)
    /\ [][exit' = "returned" => (exit = "returned" \/ pcT["main"] = "ret")]_vars

\* C17 witness: the process has ended by main returning after Quit, both
\* cleanups done and the listener closed, while the reader of an open
\* connection was still waiting in conn.Read.
ShutdownCompleted ==
    /\ exit = "returned" /\ quitCalled
    /\ pcT["quit"] = "done" /\ pcT["main"] = "ret"
    /\ listener = "closed" /\ ~sockFile
    /\ \E c \in Conns : conn[c] = "open" /\ pc[c] = "l81"

\* ------------------------------------------------------------ DecodeSpec
\* The decoder on every message a producer can build from the five fields:
\* one connection of a running, ready process reads messages of
\* DecodeMessages.
Fields == IntFields \cup FloatFields

\* The message with the members of MsgA whose fields are in S.
SubsetMessage(S) ==
    LET Keep(mem) == FieldOf(mem.key) \in S
    IN Object(SelectSeq(MsgA.members, Keep))

\* Every message that carries a subset of the five fields.
SubsetMessages == {SubsetMessage(S) : S \in SUBSET Fields}

\* {"keypresses":5}
OnlyKeypresses == Object(<<Member("keypresses", JInt(5))>>)
\* {"keypresses":-5,"mouse_distance_in":-0.504}
NegativeMsg ==
    Object(<<Member("keypresses", JInt(0 - 5)),
             Member("mouse_distance_in", JFrac(0 - 504))>>)
\* {"keypresses":"many","mouse_clicks":3}
StringForIntMsg ==
    Object(<<Member("keypresses", JStr), Member("mouse_clicks", JInt(3))>>)
\* {"scroll_steps":1.5}
FractionForIntMsg == Object(<<Member("scroll_steps", JFrac(1500))>>)
\* {"keypresses":null,"mouse_clicks":9}
NullMsg == Object(<<Member("keypresses", JNull), Member("mouse_clicks", JInt(9))>>)
\* {"keypresses":1,"keypresses":2}
DuplicateKeyMsg ==
    Object(<<Member("keypresses", JInt(1)), Member("keypresses", JInt(2))>>)
\* {"uptime":77,"scroll_steps":8}
ExtraKeyMsg == Object(<<Member("uptime", JInt(77)), Member("scroll_steps", JInt(8))>>)
\* {"Keypresses":7}
OtherCaseMsg == Object(<<Member("Keypresses", JInt(7))>>)

DecodeMessages ==
    SubsetMessages \cup
    {Malformed, MsgB, OnlyKeypresses, NegativeMsg, StringForIntMsg,
     FractionForIntMsg, NullMsg, DuplicateKeyMsg, ExtraKeyMsg, OtherCaseMsg}

\* A process that has bound its socket, finished onReady and accepted one
\* connection, whose reader waits for its first message.
InitDecode ==
    /\ exit = "running"
    /\ staleAtStart = FALSE
    /\ accepts = <<1>>
    /\ sockFile = TRUE
    /\ listener = "open"
    /\ pcT = [t \in Tasks |->
                 CASE t = "main" -> "loop"
                   [] t = "listener" -> "l55"
                   [] t = "ready" -> "done"
                   [] t = "quit" -> "l112"]
    /\ quitCalled = FALSE
    /\ items = InitialTitles
    /\ isMenuInitialized = TRUE
    /\ conn = [c \in Conns |-> IF c = 1 THEN "open" ELSE "none"]
    /\ pc = [c \in Conns |-> IF c = 1 THEN "l81" ELSE "none"]
    /\ metrics = [c \in Conns |-> ZeroMetrics]
    /\ reads = [c \in Conns |-> <<>>]
    /\ pubs = [c \in Conns |-> <<>>]
    /\ overlap = [c \in Conns |-> FALSE]
    /\ rendered = <<>>

DecodeRead(c) == ReadFrom(c, DecodeMessages)

DecodeNext ==
    \/ \E c \in Conns : DecodeRead(c)
    \/ \E c \in Conns : UpdCheckInitialized(c)
    \/ \E c \in Conns : UpdCheckNil(c)
    \/ \E c \in Conns : UpdSetTitle(c)

DecodeSpec == InitDecode /\ [][DecodeNext]_vars

\* The key that carries each field on the wire.
WireKey(f) ==
    CASE f = "Keypresses" -> "keypresses"
      [] f = "MouseClicks" -> "mouse_clicks"
      [] f = "MouseDistanceIn" -> "mouse_distance_in"
      [] f = "MouseDistanceMi" -> "mouse_distance_mi"
      [] f = "ScrollSteps" -> "scroll_steps"

\* The number a JSON number stands for, in the unit of field f.
GivenValue(f, val) ==
    IF f \in FloatFields /\ val.t = "int" THEN 1000 * val.v ELSE val.v

\* The snapshot a message stands for: for each field the value the message
\* gives it, zero when the message does not carry the field.
GivenSnapshot(msg) ==
    [f \in Fields |->
        IF \E i \in 1 .. Len(msg.members) : msg.members[i].key = WireKey(f)
        THEN LET i == CHOOSE i \in 1 .. Len(msg.members) :
                          msg.members[i].key = WireKey(f)
             IN GivenValue(f, msg.members[i].val)
        ELSE 0]

\* The messages that carry some of the five fields, each once and with a
\* number of its type, and nothing else.
FieldMessages == SubsetMessages \cup {MsgB, OnlyKeypresses, NegativeMsg}

\* C10: whatever a connection decoded before, the read of a message that
\* carries a subset of the five fields decodes without error into the
\* snapshot with the given value for each field it carries and zero for each
\* field it does not, and that snapshot is what is published.
MissingFieldTolerance ==
    [][\A c \in Conns :
         (ReadStep(c) /\ reads'[c][Len(reads'[c])] \in FieldMessages) =>
             LET msg == reads'[c][Len(reads'[c])]
             IN /\ pc'[c] = "l137"
                /\ metrics'[c] = GivenSnapshot(msg)
                /\ pubs'[c] = Append(pubs[c], GivenSnapshot(msg))]_vars

\* C10 witness: after the full MsgA, the connection read {"keypresses":5}
\* alone and decoded it to keypresses 5 and zero everywhere else.
PartialAfterFull ==
    \E c \in Conns :
        /\ reads[c] = <<MsgA, OnlyKeypresses>>
        /\ pc[c] = "l137"
        /\ metrics[c] = Metrics(5, 0, 0, 0, 0)
        /\ pubs[c] = <<Metrics(12, 3, 1234, 7, 4), Metrics(5, 0, 0, 0, 0)>>

\* C18: every snapshot updateMenuItems is called with has no negative count
\* and no negative distance.
PublishedNonNegative ==
    \A m \in Published : \A f \in Fields : m[f] >= 0

\* The snapshots of the messages of q the decoder accepts, in the order of q.
RECURSIVE DecodedOf(_)
DecodedOf(q) ==
    IF q = <<>> THEN <<>>
    ELSE LET r == Unmarshal(Head(q), ZeroMetrics)
         IN (IF r.err THEN <<>> ELSE <<r.m>>) \o DecodedOf(Tail(q))

\* All updateMenuItems calls made so far.
TotalPubs == SumLen(pubs, Conns)

\* C19: on every connection the snapshots published are those of the
\* accepted messages read, one each and in the order of the reads, so never
\* more than the reads; a snapshot is published only in the step of its read,
\* one per read; and no more calls run to their end than were made.
OnePublishPerRead ==
    /\ [](\A c \in Conns :
            /\ Len(pubs[c]) <= Len(reads[c])
            /\ pubs[c] = DecodedOf(reads[c]))
    /\ [][\A c \in Conns :
            pubs'[c] # pubs[c] =>
                /\ ReadStep(c)
                /\ pubs'[c] = Append(pubs[c],
                        Unmarshal(reads'[c][Len(reads'[c])], ZeroMetrics).m)]_vars
    /\ [](Len(rendered) <= TotalPubs)

\* C19 witness: the connection read MsgB and then MsgA, and published the
\* snapshot of MsgB and then that of MsgA, which the display shows.
PublishedInReadOrder ==
    \E c \in Conns :
        /\ reads[c] = <<MsgB, MsgA>>
        /\ pubs[c] = <<Metrics(20, 5, 2000, 16, 6), Metrics(12, 3, 1234, 7, 4)>>
        /\ Len(rendered) = 2 /\ rendered[1].m = pubs[c][1] /\ rendered[2].m = pubs[c][2]
        /\ pc[c] = "l81"
        /\ items = TitlesOf(Metrics(12, 3, 1234, 7, 4))

\* ------------------------------------------------------------ AcceptSpec
\* The accept loop with its failed Accept calls on record: a process that
\* has bound its socket and finished onReady, and whose accept loop waits in
\* its first Accept.
InitAccept ==
    /\ exit = "running"
    /\ staleAtStart = FALSE
    /\ accepts = <<>>
    /\ sockFile = TRUE
    /\ listener = "open"
    /\ pcT = [t \in Tasks |->
                 CASE t = "main" -> "loop"
                   [] t = "listener" -> "l55"
                   [] t = "ready" -> "done"
                   [] t = "quit" -> "l112"]
    /\ quitCalled = FALSE
    /\ items = InitialTitles
    /\ isMenuInitialized = TRUE
    /\ conn = [c \in Conns |-> "none"]
    /\ pc = [c \in Conns |-> "none"]
    /\ metrics = [c \in Conns |-> ZeroMetrics]
    /\ reads = [c \in Conns |-> <<>>]
    /\ pubs = [c \in Conns |-> <<>>]
    /\ overlap = [c \in Conns |-> FALSE]
    /\ rendered = <<>>

AcceptErrorNoted == AcceptFails(MaxAcceptErrors)

\* The producers of these runs send MsgA.
AcceptedConnRead(c) == ReadFrom(c, {MsgA})

AcceptNext ==
    \/ AcceptConn
    \/ AcceptErrorNoted
    \/ \E c \in Conns : AcceptedConnRead(c)
    \/ \E c \in Conns : ReadFail(c)
    \/ \E c \in Conns : UpdCheckInitialized(c)
    \/ \E c \in Conns : UpdCheckNil(c)
    \/ \E c \in Conns : UpdSetTitle(c)
    \/ QuitClicked
    \/ \E t \in CleanupTasks : CleanupClose(t)
    \/ \E t \in CleanupTasks : CleanupRemove(t)
    \/ SystrayQuit
    \/ OnExit
    \/ MainReturn

AcceptSpec == InitAccept /\ [][AcceptNext]_vars

\* C14: a failed Accept leaves the loop at its next Accept and the process,
\* the listener and the connections as they were; the accept loop, once
\* entered, is never left while the process runs; and after any number of
\* failed Accepts the loop at Accept on the open listener can accept the
\* next connection.
AcceptErrorNeverEndsLoop ==
    /\ [][AcceptErrors' > AcceptErrors =>
            /\ pcT'["listener"] = "l55" /\ exit' = exit
            /\ listener' = listener /\ sockFile' = sockFile
            /\ conn' = conn /\ pc' = pc]_vars
    /\ [][pcT["listener"] = "l55" => pcT'["listener"] = "l55"]_vars
    /\ []((Running /\ AcceptErrors > 0 /\ pcT["listener"] = "l55"
           /\ listener = "open" /\ \E d \in Conns : conn[d] = "none")
              => ENABLED AcceptConn)

\* C14 witness: an Accept failed, the next one returned connection 1, the
\* one after failed, the next returned connection 2, and the loop waits in
\* Accept again.
AcceptedAfterAcceptErrors ==
    /\ Running
    /\ accepts = <<AcceptErr, 1, AcceptErr, 2>>
    /\ conn[1] = "open" /\ conn[2] = "open"
    /\ pcT["listener"] = "l55"

====
